---- MODULE Spec2Model ----
(***************************************************************************)
(* Quiz attempts of quizapp-backend: the attempt and answer collections,   *)
(* the request handlers of controllers/quizAttemptController.js            *)
(* (createQuizAttempt, submitQuizAnswer, deleteQuizAttempt) and the        *)
(* schemas of models/Quiz.js.  Every `await` of a handler is a point where *)
(* another request may run, so a handler is a sequence of steps, one per   *)
(* database operation; a transaction commits as one step.                  *)
(* The handlers start generateUserInsights (utils/mlInsightGenerator.js),  *)
(* which runs in the background, query by query, and saves an MLInsight    *)
(* document (models/MLInsight.js).                                         *)
(***************************************************************************)
EXTENDS Integers, Sequences, FiniteSets, Bags, TLC

(* ------------------------------ bounds --------------------------------- *)
\* attempt documents ever created (ids are fresh uuids, never reused)
MaxAttempts == 1
\* requests in flight at the same time
NumProcs == 2
\* length of the answers list of a bulk submission
MaxBulkLen == 2
\* completed attempts whose answers are handed to the topic aggregation
MaxGroups == 2
\* attempt documents ever created while insight runs are followed
MaxInsightAttempts == 2

(* ------------------------------ catalog -------------------------------- *)
\* The quiz and question collections are read-only for these handlers.
Users == {"u1", "u2"}
Quizzes == {"quizA", "quizB"}
\* a well-formed uuid under which no quiz is stored
MissingQuiz == "quizZ"
Questions == {"q1", "q2", "q3", "q4"}
\* a question id under which no question is stored
MissingQuestion == "q9"

\* Question.quiz_id
QuestionQuiz(q) == IF q = "q4" THEN "quizB" ELSE "quizA"

\* Question.correct_answer, an array of strings
CorrectAnswer(q) ==
    CASE q = "q1" -> <<"A">>
      [] q = "q2" -> <<"B">>
      [] q = "q3" -> <<"C">>
      [] OTHER    -> <<"A", "B">>

\* The selected_answer values a client sends for a question.
Selections(q) ==
    IF q = "q4" THEN {<<"A", "B">>, <<"B", "A">>}
    ELSE {CorrectAnswer(q), <<"X">>}

\* Question.countDocuments({ quiz_id })
QuestionsCount(quiz) == Cardinality({q \in Questions : QuestionQuiz(q) = quiz})

(* --------------------------- pure functions ---------------------------- *)
RECURSIVE JoinQuoted(_)
JoinQuoted(s) ==
    IF Len(s) = 0 THEN ""
    ELSE IF Len(s) = 1 THEN "\"" \o s[1] \o "\""
    ELSE "\"" \o s[1] \o "\"," \o JoinQuoted(Tail(s))

\* JSON.stringify of an array of strings
JSONStringify(s) == "[" \o JoinQuoted(s) \o "]"

\* JSON.stringify(selected_answer) === JSON.stringify(question.correct_answer)
IsCorrect(sel, q) == JSONStringify(sel) = JSONStringify(CorrectAnswer(q))

RECURSIVE GCD(_, _)
GCD(a, b) == IF b = 0 THEN a ELSE GCD(b, a % b)

\* A Number that need not be whole is kept exactly, as a reduced fraction.
Frac(n, d) == LET g == GCD(n, d) IN IF g = 0 THEN <<0, 1>> ELSE <<n \div g, d \div g>>
Whole(n) == <<n, 1>>

\* (correctAnswers / questionsCount) * 100
ScoreOf(correctAnswers, questionsCount) == Frac(correctAnswers * 100, questionsCount)

\* Math.round of n/d with d > 0: floor(n/d + 1/2), halves round up
Round(f) == (2 * f[1] + f[2]) \div (2 * f[2])

\* the value of a field that holds null
Null == <<>>

(* ------------------------------- state --------------------------------- *)
VARIABLES
    attempts,       \* QuizAttempt collection: id -> document, or NoDoc
    answers,        \* QuizAttemptAnswer collection: a bag of documents
    nextId,         \* how many attempt ids uuidv4 has handed out
    now,            \* the clock read by new Date()
    pc,             \* per request slot: the step the handler is at
    req,            \* per request slot: the handler's local variables
    completionWrites, \* history: per attempt, completion updates applied
    bulkCreated,    \* history: the attempts created by createQuizAttempt
    runs,           \* generateUserInsights calls in progress: a bag of runs
    insights,       \* MLInsight collection: documents in natural order
    runErrors,      \* history: the runs that have thrown, a bag
    sample,         \* the graded answers handed to the topic aggregation
    computed,       \* what the topic aggregation made of sample
    userBadges,     \* UserBadge collection: documents in natural order
    client          \* QuizInterface: the state of the quiz being taken

vars == <<attempts, answers, nextId, now, pc, req, completionWrites, bulkCreated,
          runs, insights, runErrors, sample, computed, userBadges, client>>

\* what no handler of quizAttemptController.js reads or writes
engineVars == <<insights, runErrors, sample, computed, userBadges, client>>

AttemptIds == 1..MaxAttempts
Procs == 1..NumProcs
NoDoc == [status |-> "NONE"]
NoReq == [op |-> "none"]
\* no quiz is being taken
NoClient == [status |-> "quiz_selection"]

Exists(a) == attempts[a] # NoDoc

\* the documents of bag docs that a query selects: those in the set S
Find(docs, S) == [d \in S \cap DOMAIN docs |-> docs[d]]

\* countDocuments
CountDocuments(docs) == IF DOMAIN docs = {} THEN 0 ELSE BagCardinality(docs)

\* QuizAttemptAnswer.find({ attempt_id })
AnswersOf(a) == Find(answers, {d \in DOMAIN answers : d.attempt_id = a})

\* QuizAttemptAnswer.find({ attempt_id, is_correct: true })
CorrectAnswersOf(a) ==
    Find(answers, {d \in DOMAIN answers : d.attempt_id = a /\ d.is_correct})

\* the (attempt_id, question_id) pairs the unique index holds
IndexKeys(docs) == {<<d.attempt_id, d.question_id>> : d \in DOMAIN docs}

RECURSIVE SeqToBag(_)
SeqToBag(s) == IF Len(s) = 0 THEN EmptyBag ELSE SetToBag({Head(s)}) (+) SeqToBag(Tail(s))

Init ==
    /\ attempts = [a \in AttemptIds |-> NoDoc]
    /\ answers = EmptyBag
    /\ nextId = 0
    /\ now = 0
    /\ pc = [p \in Procs |-> "idle"]
    /\ req = [p \in Procs |-> NoReq]
    /\ completionWrites = [a \in AttemptIds |-> 0]
    /\ bulkCreated = {}
    /\ runs = EmptyBag
    /\ insights = <<>>
    /\ runErrors = EmptyBag
    /\ sample = <<>>
    /\ computed = Null
    /\ userBadges = <<>>
    /\ client = NoClient

(* ----------------------- requests and responses ------------------------ *)
\* the requests on attempt a that have arrived and not yet been answered
InFlight(a) == {p \in Procs : pc[p] # "idle" /\ req[p].attempt_id = a}

\* res.status(...).json(...): the handler of slot p ends with this outcome;
\* the response stays visible at the slot until Return.
Respond(p, op, user, a, q, outcome) ==
    /\ pc' = [pc EXCEPT ![p] = "respond"]
    /\ req' = [req EXCEPT ![p] = [op |-> op, user_id |-> user, attempt_id |-> a,
                                  question_id |-> q, outcome |-> outcome]]

RespondTo(p, outcome) ==
    Respond(p, req[p].op, req[p].user_id, req[p].attempt_id, req[p].question_id,
            outcome)

\* the client has received the response; the slot is free again
Return(p) ==
    /\ pc[p] = "respond"
    /\ pc' = [pc EXCEPT ![p] = "idle"]
    /\ req' = [req EXCEPT ![p] = NoReq]
    /\ UNCHANGED <<attempts, answers, nextId, now, completionWrites, bulkCreated>>
    /\ UNCHANGED <<runs, engineVars>>

(* ------------------------------ ownership ------------------------------ *)
\* mutant: the owner of the attempt is not checked
OwnerNotChecked(doc, user) == TRUE

\* attempt.user_id !== req.user.id rejects the request with 403
OwnedBy(doc, user) == doc.user_id = user

(* ------------------------- insight run trigger ------------------------- *)
\* a call of generateUserInsights(user) made by the handler of slot p, before
\* its first query: the attempts it has read, the topics it has computed and
\* the MLInsight document it will save are still to come
NewRun(user, p) ==
    [user_id |-> user, by |-> p, pc |-> "findAttempts", found |-> <<>>,
     result |-> Null, target |-> 0, at |-> 0]

\* mutant: the handler does not call generateUserInsights
InsightsNotStarted(rs, user, p) == rs

\* generateUserInsights(user_id).then(...).catch(...): the run is started and
\* the handler goes on without awaiting it
StartInsights(rs, user, p) == rs (+) SetToBag({NewRun(user, p)})

(* --------------------------- CreateInitial ----------------------------- *)
\* POST /quiz-attempts/initialize: a new attempt, IN_PROGRESS, scores null.
CreateInitial(user, quiz) ==
    /\ quiz \in Quizzes
    /\ nextId' = nextId + 1
    /\ attempts' = [attempts EXCEPT ![nextId + 1] =
                      [user_id |-> user, quiz_id |-> quiz, status |-> "IN_PROGRESS",
                       score |-> Null, total_questions |-> Null,
                       correct_answers |-> Null, completed_at |-> Null]]
    /\ UNCHANGED <<answers, now, pc, req, completionWrites, bulkCreated>>
    /\ UNCHANGED <<runs, engineVars>>

(* -------------------------- submitQuizAnswer --------------------------- *)
\* mutant: the status of the attempt is not checked
StatusNotChecked(status) == TRUE

\* attempt.status !== "IN_PROGRESS" rejects the request
StatusAllowsSubmit(status) == status = "IN_PROGRESS"

\* mutant: the quiz of the question is not checked
QuestionOfAnyQuiz(q, quiz) == TRUE

\* question.quiz_id !== attempt.quiz_id rejects the request
QuestionBelongs(q, quiz) == QuestionQuiz(q) = quiz

\* mutant: the collection has no unique index
UniqueIndexMissing(keys, a, q) == TRUE

\* the unique index { attempt_id: 1, question_id: 1 }: may (a, q) be inserted
\* when the index holds keys?
UniqueIndexAllows(keys, a, q) == <<a, q>> \notin keys

\* answersCount === questionsCount
IsLastAnswer(answersCount, questionsCount) == answersCount = questionsCount

\* QuizAttempt.updateOne({ id }, { status: "COMPLETED", ... }) applied to doc
CompletionUpdate(doc, correctAnswers, questionsCount, t) ==
    [doc EXCEPT !.status = "COMPLETED",
                !.completed_at = <<t>>,
                !.score = ScoreOf(correctAnswers, questionsCount),
                !.total_questions = <<questionsCount>>,
                !.correct_answers = <<correctAnswers>>]

\* QuizAttempt.findOne({ id: attemptId }) and the checks on the attempt
SubmitFindAttempt(p, user, a, q, sel) ==
    /\ LET out == IF ~Exists(a) THEN "NotFound"
                  ELSE IF ~OwnedBy(attempts[a], user) THEN "Unauthorized"
                  ELSE IF ~StatusAllowsSubmit(attempts[a].status)
                       THEN "ConflictNotInProgress"
                  ELSE "ok"
       IN IF out = "ok"
          THEN /\ pc' = [pc EXCEPT ![p] = "findExisting"]
               /\ req' = [req EXCEPT ![p] =
                     [op |-> "submit", user_id |-> user, attempt_id |-> a,
                      question_id |-> q, selected_answer |-> sel,
                      quiz_id |-> attempts[a].quiz_id, is_correct |-> FALSE,
                      questionsCount |-> 0, correctAnswers |-> 0]]
          ELSE Respond(p, "submit", user, a, "", out)
    /\ UNCHANGED <<attempts, answers, nextId, now, completionWrites, bulkCreated>>
    /\ UNCHANGED <<runs, engineVars>>

\* Question.findOne, the checks on the question, QuizAttemptAnswer.findOne
SubmitFindExisting(p) ==
    /\ pc[p] = "findExisting"
    /\ LET r == req[p]
           out == IF r.question_id \notin Questions THEN "NotFound"
                  ELSE IF ~QuestionBelongs(r.question_id, r.quiz_id) THEN "Validation"
                  ELSE IF \E d \in DOMAIN answers : /\ d.attempt_id = r.attempt_id
                                                    /\ d.question_id = r.question_id
                       THEN "ConflictDuplicate"
                  ELSE "ok"
       IN IF out = "ok"
          THEN /\ pc' = [pc EXCEPT ![p] = "create"]
               /\ req' = [req EXCEPT ![p].is_correct =
                                 IsCorrect(r.selected_answer, r.question_id)]
          ELSE RespondTo(p, out)
    /\ UNCHANGED <<attempts, answers, nextId, now, completionWrites, bulkCreated>>
    /\ UNCHANGED <<runs, engineVars>>

\* QuizAttemptAnswer.create: a duplicate key error is thrown to the catch,
\* which answers 500
SubmitCreate(p) ==
    /\ pc[p] = "create"
    /\ LET r == req[p] IN
       IF UniqueIndexAllows(IndexKeys(answers), r.attempt_id, r.question_id)
       THEN /\ answers' = answers (+) SetToBag(
                   {[attempt_id |-> r.attempt_id, question_id |-> r.question_id,
                     selected_answer |-> r.selected_answer,
                     is_correct |-> r.is_correct]})
            /\ pc' = [pc EXCEPT ![p] = "count"]
            /\ UNCHANGED req
       ELSE /\ RespondTo(p, "Internal")
            /\ UNCHANGED answers
    /\ UNCHANGED <<attempts, nextId, now, completionWrites, bulkCreated>>
    /\ UNCHANGED <<runs, engineVars>>

\* the two countDocuments and the test answersCount === questionsCount
SubmitCount(p) ==
    /\ pc[p] = "count"
    /\ LET r == req[p]
           answersCount == CountDocuments(AnswersOf(r.attempt_id))
           questionsCount == QuestionsCount(r.quiz_id)
       IN IF IsLastAnswer(answersCount, questionsCount)
          THEN /\ pc' = [pc EXCEPT ![p] = "countCorrect"]
               /\ req' = [req EXCEPT ![p].questionsCount = questionsCount]
          ELSE RespondTo(p, "Success")
    /\ UNCHANGED <<attempts, answers, nextId, now, completionWrites, bulkCreated>>
    /\ UNCHANGED <<runs, engineVars>>

\* QuizAttemptAnswer.countDocuments({ attempt_id, is_correct: true })
SubmitCountCorrect(p) ==
    /\ pc[p] = "countCorrect"
    /\ pc' = [pc EXCEPT ![p] = "update"]
    /\ req' = [req EXCEPT ![p].correctAnswers =
                  CountDocuments(CorrectAnswersOf(req[p].attempt_id))]
    /\ UNCHANGED <<attempts, answers, nextId, now, completionWrites, bulkCreated>>
    /\ UNCHANGED <<runs, engineVars>>

\* QuizAttempt.updateOne (no document matches once the attempt is deleted),
\* the start of the insight run, then the 201 response
SubmitUpdate(p) ==
    /\ pc[p] = "update"
    /\ LET r == req[p]
           a == r.attempt_id
       IN IF Exists(a)
          THEN /\ attempts' = [attempts EXCEPT ![a] =
                     CompletionUpdate(@, r.correctAnswers, r.questionsCount, now + 1)]
               /\ now' = now + 1
               /\ completionWrites' = [completionWrites EXCEPT ![a] = @ + 1]
          ELSE UNCHANGED <<attempts, now, completionWrites>>
    /\ runs' = StartInsights(runs, req[p].user_id, p)
    /\ RespondTo(p, "Success")
    /\ UNCHANGED <<answers, nextId, bulkCreated>>
    /\ UNCHANGED engineVars

(* -------------------------- createQuizAttempt -------------------------- *)
\* the answers of a bulk request: each names a question and a selection
BulkItems ==
    {[question_id |-> q, selected_answer |-> sel] : q \in Questions, sel \in {<<"X">>}}
    \cup {[question_id |-> q, selected_answer |-> CorrectAnswer(q)] : q \in Questions}
    \cup {[question_id |-> MissingQuestion, selected_answer |-> <<"X">>]}

BulkLists == UNION {[1..n -> BulkItems] : n \in 0..MaxBulkLen}

\* score, total_questions and correct_answers as the quiz client reports
\* them for a quiz: all or all but one correct, the percentage rounded
ClientReports(quiz) ==
    LET total == IF quiz \in Quizzes THEN QuestionsCount(quiz) ELSE 3
    IN {[score |-> Whole(Round(Frac(c * 100, total))), total_questions |-> total,
         correct_answers |-> c] : c \in {total - 1, total}}

\* the checks of one answer inside answers.map: the question exists and
\* belongs to quiz_id (otherwise the callback throws)
BulkAnswerValid(item, quiz) ==
    /\ item.question_id \in Questions
    /\ QuestionBelongs(item.question_id, quiz)

\* the documents answers.map builds for attempt id
BulkDocs(id, list) ==
    [i \in 1..Len(list) |->
        [attempt_id |-> id, question_id |-> list[i].question_id,
         selected_answer |-> list[i].selected_answer,
         is_correct |-> IsCorrect(list[i].selected_answer, list[i].question_id)]]

\* QuizAttemptAnswer.insertMany under the unique index
InsertManyAllowed(docs, new) ==
    \A i \in 1..Len(new) :
        UniqueIndexAllows(IndexKeys(docs (+) SeqToBag(SubSeq(new, 1, i - 1))),
                          new[i].attempt_id, new[i].question_id)

\* mutant: the writes are not part of a transaction, a throw undoes nothing
TransactionNotRolledBack(committed, before, after) == after

\* session.withTransaction: what is persisted is the state after the
\* callback when it returned, and the state before it when it threw
Transaction(committed, before, after) == IF committed THEN after ELSE before

\* the whole handler; the transaction is its only access to shared state,
\* and after it the insight run is started
CreateQuizAttempt(p, user, quiz, report, list) ==
    /\ LET id == nextId + 1
           doc == [user_id |-> user, quiz_id |-> quiz, status |-> "COMPLETED",
                   score |-> report.score,
                   total_questions |-> <<report.total_questions>>,
                   correct_answers |-> <<report.correct_answers>>,
                   completed_at |-> <<now + 1>>]
           new == BulkDocs(id, list)
           valid == \A i \in 1..Len(list) : BulkAnswerValid(list[i], quiz)
           committed == valid /\ InsertManyAllowed(answers, new)
           out == IF quiz = "" THEN "Validation"
                  ELSE IF quiz \notin Quizzes THEN "NotFound"
                  ELSE IF ~valid THEN "InternalInvalidAnswer"
                  ELSE IF ~committed THEN "InternalDuplicateKey"
                  ELSE "Success"
       IN /\ IF out \in {"Validation", "NotFound"}
             THEN UNCHANGED <<attempts, answers>>
             ELSE /\ attempts' = Transaction(committed, attempts,
                                             [attempts EXCEPT ![id] = doc])
                  /\ answers' = Transaction(committed, answers,
                         IF valid THEN answers (+) SeqToBag(new) ELSE answers)
          /\ nextId' = IF attempts' # attempts THEN id ELSE nextId
          /\ now' = IF attempts' # attempts THEN now + 1 ELSE now
          /\ bulkCreated' = IF attempts' # attempts THEN bulkCreated \cup {id}
                            ELSE bulkCreated
          /\ runs' = IF out = "Success" THEN StartInsights(runs, user, p) ELSE runs
          /\ Respond(p, "bulk", user, IF attempts' # attempts THEN id ELSE 0, "", out)
    /\ UNCHANGED completionWrites
    /\ UNCHANGED engineVars

(* -------------------------- deleteQuizAttempt -------------------------- *)
\* QuizAttempt.findOne({ id }) and the checks on the attempt
DeleteFind(p, user, a) ==
    /\ LET out == IF ~Exists(a) THEN "NotFound"
                  ELSE IF ~OwnedBy(attempts[a], user) THEN "Unauthorized"
                  ELSE "ok"
       IN IF out = "ok"
          THEN /\ pc' = [pc EXCEPT ![p] = "deleteOne"]
               /\ req' = [req EXCEPT ![p] = [op |-> "delete", user_id |-> user,
                                             attempt_id |-> a, question_id |-> ""]]
          ELSE Respond(p, "delete", user, a, "", out)
    /\ UNCHANGED <<attempts, answers, nextId, now, completionWrites, bulkCreated>>
    /\ UNCHANGED <<runs, engineVars>>

\* mutant: a soft delete, the document stays and is marked
SoftDeletedDoc(doc) == [doc EXCEPT !.status = "ABANDONED"]

\* what QuizAttempt.deleteOne leaves of the document: nothing
DeletedDoc(doc) == NoDoc

\* QuizAttempt.deleteOne({ id })
DeleteOne(p) ==
    /\ pc[p] = "deleteOne"
    /\ attempts' = [attempts EXCEPT ![req[p].attempt_id] = DeletedDoc(@)]
    /\ pc' = [pc EXCEPT ![p] = "deleteMany"]
    /\ UNCHANGED <<answers, nextId, now, req, completionWrites, bulkCreated>>
    /\ UNCHANGED <<runs, engineVars>>

\* QuizAttemptAnswer.deleteMany({ attempt_id: id }), then the 200 response
DeleteMany(p) ==
    /\ pc[p] = "deleteMany"
    /\ answers' = Find(answers, DOMAIN answers \ DOMAIN AnswersOf(req[p].attempt_id))
    /\ RespondTo(p, "Success")
    /\ UNCHANGED <<attempts, nextId, now, completionWrites, bulkCreated>>
    /\ UNCHANGED <<runs, engineVars>>

(* ------------------------- getQuizAttemptById -------------------------- *)
\* QuizAttempt.findOne({ id }) and the checks on the attempt
GetFind(p, user, a) ==
    /\ LET out == IF ~Exists(a) THEN "NotFound"
                  ELSE IF ~OwnedBy(attempts[a], user) THEN "Unauthorized"
                  ELSE "ok"
       IN IF out = "ok"
          THEN /\ pc' = [pc EXCEPT ![p] = "getAnswers"]
               /\ req' = [req EXCEPT ![p] = [op |-> "get", user_id |-> user,
                                             attempt_id |-> a, question_id |-> ""]]
          ELSE Respond(p, "get", user, a, "", out)
    /\ UNCHANGED <<attempts, answers, nextId, now, completionWrites, bulkCreated>>
    /\ UNCHANGED <<runs, engineVars>>

\* QuizAttemptAnswer.find, Question.find, then the 200 response
GetAnswers(p) ==
    /\ pc[p] = "getAnswers"
    /\ RespondTo(p, "Success")
    /\ UNCHANGED <<attempts, answers, nextId, now, completionWrites, bulkCreated>>
    /\ UNCHANGED <<runs, engineVars>>

(* ------------------ generateUserInsights: aggregation ------------------ *)
\* Quiz.topic and Quiz.difficulty of the stored quizzes
QuizTopic(quiz) == "Algebra"
QuizDifficulty(quiz) == IF quiz = "quizB" THEN "HARD" ELSE "EASY"

\* mutant: every difficulty weighs 1.0
UnitWeight(difficulty) == <<1, 1>>

\* difficultyWeight: 1.0, 1.5 for MEDIUM, 2.0 for HARD
DifficultyWeight(difficulty) ==
    CASE difficulty = "MEDIUM" -> <<3, 2>>
      [] difficulty = "HARD"   -> <<2, 1>>
      [] OTHER                 -> <<1, 1>>

\* attemptDetail: what the aggregation keeps of one graded answer
AttemptDetail(topic, isCorrect, timestamp, difficulty) ==
    [topic |-> topic, is_correct |-> isCorrect, timestamp |-> timestamp,
     difficulty |-> difficulty, weight |-> DifficultyWeight(difficulty)]

\* the sum of two Numbers
FracAdd(x, y) == Frac(x[1] * y[2] + y[1] * x[2], x[2] * y[2])

\* reduce((sum, a) => sum + a.weight, 0)
RECURSIVE SumWeights(_)
SumWeights(details) ==
    IF Len(details) = 0 THEN <<0, 1>>
    ELSE FracAdd(details[1].weight, SumWeights(Tail(details)))

RECURSIVE FilterCorrect(_)
\* filter(a => a.is_correct)
FilterCorrect(details) ==
    IF Len(details) = 0 THEN <<>>
    ELSE IF details[1].is_correct
         THEN <<details[1]>> \o FilterCorrect(Tail(details))
         ELSE FilterCorrect(Tail(details))

\* Math.round((weightedCorrect / weightedTotal) * 100) over a list of details
WeightedPercent(details) ==
    LET c == SumWeights(FilterCorrect(details))
        t == SumWeights(details)
    IN Round(Frac(c[1] * t[2] * 100, c[2] * t[1]))

RECURSIVE TopicDetails(_, _)
\* topicAttempts[topic]: the details of a topic in the order they were pushed
TopicDetails(details, topic) ==
    IF Len(details) = 0 THEN <<>>
    ELSE IF details[1].topic = topic
         THEN <<details[1]>> \o TopicDetails(Tail(details), topic)
         ELSE TopicDetails(Tail(details), topic)

RECURSIVE InsertByTime(_, _, _)
\* x put into the sorted list s behind every element that does not have to
\* come after it (Array.prototype.sort is stable)
InsertByTime(x, s, descending) ==
    IF Len(s) = 0 THEN <<x>>
    ELSE IF (IF descending THEN s[1].timestamp < x.timestamp
                           ELSE s[1].timestamp > x.timestamp)
         THEN <<x>> \o s
         ELSE <<s[1]>> \o InsertByTime(x, Tail(s), descending)

RECURSIVE SortByTime(_, _)
\* sort((a, b) => time(b) - time(a)) when descending, time(a) - time(b) else
SortByTime(s, descending) ==
    IF Len(s) = 0 THEN <<>>
    ELSE InsertByTime(s[Len(s)], SortByTime(SubSeq(s, 1, Len(s) - 1), descending),
                      descending)

\* slice(0, n) for n >= 0
SliceFirst(s, n) == SubSeq(s, 1, IF n < Len(s) THEN n ELSE Len(s))

\* slice(0, -n) for n > 0
SliceDropLast(s, n) == SubSeq(s, 1, Len(s) - n)

\* recentAttemptsByTopic[topic]: the 10 most recent details of the topic
RecentAttempts(all) == SliceFirst(SortByTime(all, TRUE), 10)

\* olderAttempts: the details left when as many as the recent ones are cut
\* off the end of the list sorted by time
OlderAttempts(all) == SliceDropLast(SortByTime(all, FALSE), Len(RecentAttempts(all)))

\* mutant: the blended value is stored as it is
NotClamped(x) == x

\* Math.max(0, Math.min(100, x))
Clamp(x) == IF x > 100 THEN 100 ELSE IF x < 0 THEN 0 ELSE x

\* trendFactor: recentScore - olderScore with 3 older details, else 0
TrendFactor(all) ==
    IF Len(OlderAttempts(all)) >= 3
    THEN WeightedPercent(RecentAttempts(all)) - WeightedPercent(OlderAttempts(all))
    ELSE 0

\* Math.round(score * 0.6 + recentScore * 0.3 + trendFactor * 0.1), the
\* value of the sum taken exactly
Blend(score, recentScore, trendFactor) ==
    Round(<<6 * score + 3 * recentScore + trendFactor, 10>>)

\* confidenceScore of a topic
ConfidenceScore(all) ==
    IF Len(RecentAttempts(all)) >= 3
    THEN Clamp(Blend(WeightedPercent(all), WeightedPercent(RecentAttempts(all)),
                     TrendFactor(all)))
    ELSE WeightedPercent(all)

\* mutant: two graded answers are enough for a topic
FewerThanTwo(total) == total < 2

\* stats.total < 3: the topic is skipped
TooFewAnswers(total) == total < 3

\* mutant: a score of 60 still counts as weak
WeakUpTo60(score) == score <= 60

\* score < 60
IsWeak(score) == score < 60

\* else if (score >= 80)
IsStrong(score) == ~IsWeak(score) /\ score >= 80

\* the topics, scores and lists computed from the details of all answers
AnalyzeTopics(details) ==
    LET topics == {details[i].topic : i \in DOMAIN details}
        kept == {t \in topics : ~TooFewAnswers(Len(TopicDetails(details, t)))}
        score == [t \in kept |-> WeightedPercent(TopicDetails(details, t))]
    IN [topic_performance |-> score,
        confidence_scores |-> [t \in kept |-> ConfidenceScore(TopicDetails(details, t))],
        weak_topics |-> {t \in kept : IsWeak(score[t])},
        strong_topics |-> {t \in kept : IsStrong(score[t])}]

(* --------------------- generateUserInsights: the run ------------------- *)
RECURSIVE CompletedFrom(_, _, _)
\* the user's COMPLETED attempts with ids a.. in natural order, each with its
\* completed_at as timestamp
CompletedFrom(docs, user, a) ==
    IF a \notin DOMAIN docs THEN <<>>
    ELSE IF docs[a] # NoDoc /\ docs[a].user_id = user /\ docs[a].status = "COMPLETED"
         THEN <<[id |-> a, quiz_id |-> docs[a].quiz_id,
                 timestamp |-> docs[a].completed_at[1]]>>
              \o CompletedFrom(docs, user, a + 1)
         ELSE CompletedFrom(docs, user, a + 1)

\* mutant: every COMPLETED attempt of the user is read
AllCompleted(docs, user) == SortByTime(CompletedFrom(docs, user, 1), TRUE)

\* QuizAttempt.find({ user_id, status: "COMPLETED" })
\*     .sort({ completed_at: -1 }).limit(20)
RecentCompleted(docs, user) ==
    SliceFirst(SortByTime(CompletedFrom(docs, user, 1), TRUE), 20)

RECURSIVE BagToSeq(_)
\* the documents a find returns, in some order
BagToSeq(b) ==
    IF DOMAIN b = {} THEN <<>>
    ELSE LET d == CHOOSE x \in DOMAIN b : TRUE
         IN <<d>> \o BagToSeq(b (-) SetToBag({d}))

\* QuizAttemptAnswer.find({ attempt_id: { $in: attemptIds } })
AnswersOfAttempts(docs, found) ==
    BagToSeq(Find(docs, {d \in DOMAIN docs :
                           \E i \in DOMAIN found : found[i].id = d.attempt_id}))

RECURSIVE JoinDetails(_, _)
\* answers.forEach: an answer is skipped when its question is not found or
\* the quiz of its question is not a quiz of the attempts read; otherwise its
\* detail carries the topic and difficulty of the quiz and the completed_at
\* of its attempt
JoinDetails(read, found) ==
    IF Len(read) = 0 THEN <<>>
    ELSE LET d == read[1]
             quizIds == {found[i].quiz_id : i \in DOMAIN found}
             attempt == found[CHOOSE i \in DOMAIN found : found[i].id = d.attempt_id]
         IN IF d.question_id \in Questions /\ QuestionQuiz(d.question_id) \in quizIds
            THEN <<AttemptDetail(QuizTopic(QuestionQuiz(d.question_id)), d.is_correct,
                                 attempt.timestamp,
                                 QuizDifficulty(QuestionQuiz(d.question_id)))>>
                 \o JoinDetails(Tail(read), found)
            ELSE JoinDetails(Tail(read), found)

\* MLInsight.findOne({ user_id }): the position of the first document of the
\* user in natural order, 0 when there is none
FindOneInsight(docs, user) ==
    IF \E i \in DOMAIN docs : docs[i].user_id = user
    THEN CHOOSE i \in DOMAIN docs :
            /\ docs[i].user_id = user
            /\ \A j \in 1..(i - 1) : docs[j].user_id # user
    ELSE 0

\* the document a run saves: every field of the schema is assigned
InsightDoc(r) ==
    [user_id |-> r.user_id,
     weak_topics |-> r.result.weak_topics,
     strong_topics |-> r.result.strong_topics,
     confidence_scores |-> r.result.confidence_scores,
     topic_performance |-> r.result.topic_performance,
     last_updated |-> r.at]

\* mlInsight.save(): an insert for a new document, an update of the document
\* that findOne returned otherwise
SaveInsight(docs, r) ==
    IF r.target = 0 THEN Append(docs, InsightDoc(r))
    ELSE [docs EXCEPT ![r.target] = InsightDoc(r)]

ReplaceRun(rs, r, new) == (rs (-) SetToBag({r})) (+) SetToBag({new})
RemoveRun(rs, r) == rs (-) SetToBag({r})

\* the first query; with no COMPLETED attempt the run returns null
RunFindAttempts(r) ==
    /\ r.pc = "findAttempts"
    /\ LET found == RecentCompleted(attempts, r.user_id)
       IN runs' = IF Len(found) = 0 THEN RemoveRun(runs, r)
                  ELSE ReplaceRun(runs, r, [r EXCEPT !.pc = "findAnswers",
                                                     !.found = found])
    /\ UNCHANGED <<attempts, answers, nextId, now, pc, req, completionWrites,
                   bulkCreated, engineVars>>

\* Quiz.find, QuizAttemptAnswer.find, Question.find and the aggregation
RunFindAnswers(r) ==
    /\ r.pc = "findAnswers"
    /\ runs' = ReplaceRun(runs, r,
          [r EXCEPT !.pc = "findInsight", !.found = <<>>,
                    !.result = AnalyzeTopics(
                        JoinDetails(AnswersOfAttempts(answers, r.found), r.found))])
    /\ UNCHANGED <<attempts, answers, nextId, now, pc, req, completionWrites,
                   bulkCreated, engineVars>>

\* MLInsight.findOne, new MLInsight when there is none, last_updated = new Date()
RunFindInsight(r) ==
    /\ r.pc = "findInsight"
    /\ now' = now + 1
    /\ runs' = ReplaceRun(runs, r,
          [r EXCEPT !.pc = "save", !.target = FindOneInsight(insights, r.user_id),
                    !.at = now + 1])
    /\ UNCHANGED <<attempts, answers, nextId, pc, req, completionWrites,
                   bulkCreated, engineVars>>

\* mlInsight.save(), the only write of a run
RunSave(r) ==
    /\ r.pc = "save"
    /\ insights' = SaveInsight(insights, r)
    /\ runs' = RemoveRun(runs, r)
    /\ UNCHANGED <<attempts, answers, nextId, now, pc, req, completionWrites,
                   bulkCreated, runErrors, sample, computed, userBadges, client>>

\* mutant: the rejection of the run reaches the response of the request
FailsRequest(request) ==
    IF request = NoReq THEN request ELSE [request EXCEPT !.outcome = "Internal"]

\* .catch(insightError => console.error(...)): the request that started the
\* run is not touched
InsightErrorLogged(request) == request

\* mutant: a failed run clears the documents of its user
ClearedOnError(docs, user) == [i \in DOMAIN docs |->
    IF docs[i].user_id = user
    THEN [docs[i] EXCEPT !.weak_topics = {}, !.strong_topics = {}]
    ELSE docs[i]]

\* catch (error) { console.error(...); throw error; }: nothing is written
RethrowKeeps(docs, user) == docs

\* what is remembered of a run that threw: its user, the step that
\* rejected, the document it was to save and the time it had read
FailedRun(r) == [user_id |-> r.user_id, pc |-> r.pc, target |-> r.target, at |-> r.at]

\* a query or the save of the run rejects: the run ends in its catch block
RunFail(r) ==
    /\ runs' = RemoveRun(runs, r)
    /\ runErrors' = runErrors (+) SetToBag({FailedRun(r)})
    /\ insights' = RethrowKeeps(insights, r.user_id)
    /\ req' = [req EXCEPT ![r.by] = InsightErrorLogged(@)]
    /\ UNCHANGED <<attempts, answers, nextId, now, pc, completionWrites,
                   bulkCreated, sample, computed, userBadges, client>>

(* ------------- the aggregation applied to drawn answers ---------------- *)
Topics == {"Algebra", "Geometry"}
Difficulties == {"EASY", "MEDIUM", "HARD"}
\* how many answers of a completed attempt were graded alike
GroupSizes == {1, 2, 3, 10}

\* the answers of one completed attempt that were graded alike: the topic and
\* difficulty of its quiz, their number and their grade
Groups == [topic : Topics, difficulty : Difficulties, size : GroupSizes,
           is_correct : BOOLEAN]

Histories == UNION {[1..n -> Groups] : n \in 0..MaxGroups}

RECURSIVE Details(_, _)
\* the details answers.forEach pushes for the groups i.. of history h, whose
\* attempts were completed one after the other
Details(h, i) ==
    IF i > Len(h) THEN <<>>
    ELSE [k \in 1..h[i].size |->
             AttemptDetail(h[i].topic, h[i].is_correct, i, h[i].difficulty)]
         \o Details(h, i + 1)

EngineInit ==
    /\ attempts = [a \in AttemptIds |-> NoDoc]
    /\ answers = EmptyBag
    /\ nextId = 0
    /\ now = 0
    /\ pc = [p \in Procs |-> "idle"]
    /\ req = [p \in Procs |-> NoReq]
    /\ completionWrites = [a \in AttemptIds |-> 0]
    /\ bulkCreated = {}
    /\ runs = EmptyBag
    /\ insights = <<>>
    /\ runErrors = EmptyBag
    /\ sample \in {Details(h, 1) : h \in Histories}
    /\ computed = Null
    /\ userBadges = <<>>
    /\ client = NoClient

\* lines 325-472 of generateUserInsights applied to the drawn answers
Aggregate ==
    /\ computed = Null
    /\ computed' = AnalyzeTopics(sample)
    /\ UNCHANGED <<attempts, answers, nextId, now, pc, req, completionWrites,
                   bulkCreated, runs, insights, runErrors, sample, userBadges, client>>

EngineNext == Aggregate

EngineSpec == EngineInit /\ [][EngineNext]_vars

(* --------------------------- specification ----------------------------- *)
SubmitQuestions == Questions \cup {MissingQuestion}

\* a request arrives at the idle slot p: POST /:attemptId/answers
SubmitQuizAnswer(p) ==
    /\ pc[p] = "idle"
    /\ \E u \in Users, a \in AttemptIds, q \in SubmitQuestions :
         \E sel \in (IF q \in Questions THEN Selections(q) ELSE {<<"X">>}) :
            SubmitFindAttempt(p, u, a, q, sel)

\* POST /: a bulk submission (an attempt id must be left for it)
CreateQuizAttemptRequest(p) ==
    /\ pc[p] = "idle"
    /\ nextId < MaxAttempts
    /\ \E u \in Users, z \in Quizzes \cup {MissingQuiz, ""}, l \in BulkLists :
         \E r \in ClientReports(z) : CreateQuizAttempt(p, u, z, r, l)

\* DELETE /:id
DeleteQuizAttempt(p) ==
    /\ pc[p] = "idle"
    /\ \E u \in Users, a \in AttemptIds : DeleteFind(p, u, a)

\* GET /:id
GetQuizAttemptById(p) ==
    /\ pc[p] = "idle"
    /\ \E u \in Users, a \in AttemptIds : GetFind(p, u, a)

\* POST /initialize (an attempt id must be left for it)
CreateInitialRequest ==
    /\ nextId < MaxAttempts
    /\ \E u \in Users, z \in Quizzes : CreateInitial(u, z)

Next ==
    \/ CreateInitialRequest
    \/ \E p \in Procs : SubmitQuizAnswer(p)
    \/ \E p \in Procs : SubmitFindExisting(p)
    \/ \E p \in Procs : SubmitCreate(p)
    \/ \E p \in Procs : SubmitCount(p)
    \/ \E p \in Procs : SubmitCountCorrect(p)
    \/ \E p \in Procs : SubmitUpdate(p)
    \/ \E p \in Procs : CreateQuizAttemptRequest(p)
    \/ \E p \in Procs : DeleteQuizAttempt(p)
    \/ \E p \in Procs : DeleteOne(p)
    \/ \E p \in Procs : DeleteMany(p)
    \/ \E p \in Procs : GetQuizAttemptById(p)
    \/ \E p \in Procs : GetAnswers(p)
    \/ \E p \in Procs : Return(p)

Spec == Init /\ [][Next]_vars

TypeOK ==
    /\ nextId \in 0..MaxAttempts
    /\ \A p \in Procs : pc[p] = "idle" <=> req[p] = NoReq

(* ------------- requests and insight runs, run by run ------------------- *)
\* The runs started by the handlers take their steps between the steps of
\* the requests; requests arrive one at a time, at slot 1.
InsightAttemptIds == 1..MaxInsightAttempts

\* the questions of a quiz in the order of the quiz client
QuizQuestions(quiz) == IF quiz = "quizB" THEN <<"q4">> ELSE <<"q1", "q2", "q3">>

\* the answer lists the quiz client sends at the end of a quiz: the questions
\* in order, as many as a list holds, each answered right or wrong
AnswerSheets(quiz) ==
    {l \in BulkLists :
        /\ Len(l) = IF MaxBulkLen < QuestionsCount(quiz) THEN MaxBulkLen
                    ELSE QuestionsCount(quiz)
        /\ \A i \in 1..Len(l) : l[i].question_id = QuizQuestions(quiz)[i]}

InsightInit ==
    /\ attempts = [a \in InsightAttemptIds |-> NoDoc]
    /\ answers = EmptyBag
    /\ nextId = 0
    /\ now = 0
    /\ pc = [p \in Procs |-> "idle"]
    /\ req = [p \in Procs |-> NoReq]
    /\ completionWrites = [a \in InsightAttemptIds |-> 0]
    /\ bulkCreated = {}
    /\ runs = EmptyBag
    /\ insights = <<>>
    /\ runErrors = EmptyBag
    /\ sample = <<>>
    /\ computed = Null
    /\ userBadges = <<>>
    /\ client = NoClient

\* POST /initialize for the one-question quiz
InsightCreateInitial ==
    /\ nextId < MaxInsightAttempts
    /\ \E u \in Users : CreateInitial(u, "quizB")

\* POST /:attemptId/answers for the question of the one-question quiz
InsightSubmit ==
    /\ pc[1] = "idle"
    /\ \E u \in Users, a \in InsightAttemptIds, sel \in Selections("q4") :
          SubmitFindAttempt(1, u, a, "q4", sel)

\* POST /: the bulk submission of an answer sheet by the user whose insights
\* are followed
InsightBulk ==
    /\ pc[1] = "idle"
    /\ nextId < MaxInsightAttempts
    /\ \E u \in {"u1"}, z \in Quizzes :
          \E l \in AnswerSheets(z), r \in ClientReports(z) :
              /\ r.correct_answers = r.total_questions
              /\ CreateQuizAttempt(1, u, z, r, l)

\* DELETE /:id by that user
InsightDelete ==
    /\ pc[1] = "idle"
    /\ \E u \in {"u1"}, a \in InsightAttemptIds : DeleteFind(1, u, a)

InsightNext ==
    \/ InsightCreateInitial
    \/ InsightSubmit
    \/ SubmitFindExisting(1)
    \/ SubmitCreate(1)
    \/ SubmitCount(1)
    \/ SubmitCountCorrect(1)
    \/ SubmitUpdate(1)
    \/ InsightBulk
    \/ InsightDelete
    \/ DeleteOne(1)
    \/ DeleteMany(1)
    \/ Return(1)
    \/ \E r \in DOMAIN runs : RunFindAttempts(r)
    \/ \E r \in DOMAIN runs : RunFindAnswers(r)
    \/ \E r \in DOMAIN runs : RunFindInsight(r)
    \/ \E r \in DOMAIN runs : RunSave(r)
    \/ \E r \in DOMAIN runs : RunFail(r)

InsightSpec == InsightInit /\ [][InsightNext]_vars

(* ------------------------------ properties ----------------------------- *)
Responding(p, op) == pc[p] = "respond" /\ req[p].op = op

Count(a) == CountDocuments(AnswersOf(a))
CorrectCount(a) == CountDocuments(CorrectAnswersOf(a))

\* C1: an attempt makes the IN_PROGRESS -> COMPLETED transition exactly once:
\* the completion update of an attempt is executed by at most one Submit call.
C1_CompletedExactlyOnce == \A a \in AttemptIds : completionWrites[a] <= 1

\* C2: in every reachable state there is at most one answer document for any
\* (attempt_id, question_id) pair.
C2_UniqueAnswerPerQuestion ==
    \A a \in AttemptIds, q \in Questions \cup {MissingQuestion} :
        CountDocuments(Find(answers, {d \in DOMAIN answers :
                                        d.attempt_id = a /\ d.question_id = q})) <= 1

\* a second, concurrent Submit for a pair was stopped by the unique index
\* while the first one's document is stored
C2_Witness ==
    \E p \in Procs :
        /\ Responding(p, "submit")
        /\ req[p].outcome = "Internal"
        /\ <<req[p].attempt_id, req[p].question_id>> \in IndexKeys(answers)

\* C3: of two Submit calls for the same (attempt_id, question_id) the one that
\* does not write the document returns Conflict (duplicate submission), never
\* an Internal error.
C3_DuplicateIsConflict ==
    \A p \in Procs :
        (Responding(p, "submit") /\ req[p].outcome \in {"ConflictDuplicate", "Internal"})
            => req[p].outcome = "ConflictDuplicate"

\* C4: for every COMPLETED attempt the stored score equals
\* round(correct_answers / total_questions * 100), a whole number in 0..100.
C4_ScoreIsRoundedPercentage ==
    \A a \in AttemptIds :
        (Exists(a) /\ attempts[a].status = "COMPLETED") =>
            LET doc == attempts[a]
                pct == Round(Frac(doc.correct_answers[1] * 100, doc.total_questions[1]))
            IN doc.score = Whole(pct) /\ pct \in 0..100

\* C5: for every attempt, the number of its answer documents is at most the
\* number of questions of its quiz.
C5_AnswerCountBounded ==
    \A a \in AttemptIds :
        Exists(a) => Count(a) <= QuestionsCount(attempts[a].quiz_id)

\* an attempt filled by Submit calls holds an answer to each of 3 questions
C5_Witness ==
    \E a \in AttemptIds :
        /\ Exists(a) /\ a \notin bulkCreated
        /\ attempts[a].quiz_id = "quizA"
        /\ Count(a) = 3

\* what C6 states apart from the percentage of its example
SubmittedAttemptState(a) ==
    LET doc == attempts[a]
        n == QuestionsCount(doc.quiz_id)
    IN /\ Count(a) < n => (doc.status = "IN_PROGRESS" /\ doc.score = Null)
       /\ Count(a) = n => /\ doc.status = "COMPLETED"
                          /\ doc.total_questions = <<n>>
                          /\ doc.correct_answers = <<CorrectCount(a)>>

\* C6: whenever no request on an attempt filled by Submit calls is in flight,
\* the attempt is IN_PROGRESS with score null while fewer than N questions
\* are answered, and with all N answered it is COMPLETED with
\* total_questions = N and correct_answers = the number of answers graded
\* correct; with 3 questions and 2 correct answers the score is 67.
C6_SequentialSubmissions ==
    \A a \in AttemptIds :
        (Exists(a) /\ a \notin bulkCreated /\ InFlight(a) = {}) =>
            /\ SubmittedAttemptState(a)
            /\ (Count(a) = 3 /\ CorrectCount(a) = 2 /\ attempts[a].quiz_id = "quizA")
                    => attempts[a].score = Whole(67)

\* C7: a bulk submission that fails because an answer names a question that
\* does not exist or belongs to another quiz persists no attempt and no
\* answer document.
C7_BulkAllOrNothing ==
    [][\A p \in Procs :
          (pc[p] = "idle" /\ pc'[p] = "respond" /\ req'[p].op = "bulk"
             /\ req'[p].outcome = "InternalInvalidAnswer")
          => (attempts' = attempts /\ answers' = answers)]_vars

\* a bulk submission was refused for an invalid answer
C7_Witness ==
    \E p \in Procs :
        /\ Responding(p, "bulk")
        /\ req[p].outcome = "InternalInvalidAnswer"
        /\ nextId = 0
        /\ answers = EmptyBag

\* C8: once an attempt is COMPLETED or ABANDONED, no step gives the attempt
\* another status.
C8_StatusMovesForward ==
    [][\A a \in AttemptIds :
          (Exists(a) /\ attempts[a].status \in {"COMPLETED", "ABANDONED"}
             /\ attempts'[a] # NoDoc)
          => attempts'[a].status = attempts[a].status]_vars

\* a completion update was applied to an attempt that was COMPLETED already
C8_Witness ==
    \E a \in AttemptIds :
        Exists(a) /\ attempts[a].status = "COMPLETED" /\ completionWrites[a] >= 2

\* C9: score and completed_at are null while the attempt is IN_PROGRESS, and
\* once the attempt is COMPLETED no step writes them again.
C9_ScoreWrittenOnce ==
    /\ [](\A a \in AttemptIds :
            (Exists(a) /\ attempts[a].status = "IN_PROGRESS")
                => (attempts[a].score = Null /\ attempts[a].completed_at = Null))
    /\ [][\A a \in AttemptIds :
            (Exists(a) /\ attempts[a].status = "COMPLETED" /\ attempts'[a] # NoDoc)
                => /\ attempts'[a].score = attempts[a].score
                   /\ attempts'[a].completed_at = attempts[a].completed_at]_vars

\* C10: a Submit call by the owner on an attempt that is not IN_PROGRESS is
\* answered Conflict and changes no answer document, and no step adds an
\* answer document to an attempt that is COMPLETED.
C10_NoAnswerAfterCompletion ==
    [][/\ \A p \in Procs :
            (/\ pc[p] = "idle" /\ pc'[p] # "idle" /\ req'[p].op = "submit"
             /\ Exists(req'[p].attempt_id)
             /\ attempts[req'[p].attempt_id].user_id = req'[p].user_id
             /\ attempts[req'[p].attempt_id].status # "IN_PROGRESS")
            => /\ pc'[p] = "respond"
               /\ req'[p].outcome = "ConflictNotInProgress"
               /\ answers' = answers
       /\ \A a \in AttemptIds :
            (Exists(a) /\ attempts[a].status = "COMPLETED")
                => \A d \in DOMAIN answers' :
                      d.attempt_id = a =>
                          (d \in DOMAIN answers /\ answers'[d] <= answers[d])]_vars

\* a Submit call on a COMPLETED attempt that lacks answers was refused
C10_Witness ==
    \E p \in Procs :
        /\ Responding(p, "submit")
        /\ req[p].outcome = "ConflictNotInProgress"
        /\ Exists(req[p].attempt_id)
        /\ attempts[req[p].attempt_id].status = "COMPLETED"
        /\ Count(req[p].attempt_id) < QuestionsCount(attempts[req[p].attempt_id].quiz_id)

\* C11: a Submit, Get or Delete request on an existing attempt by a user who
\* is not its owner is answered Unauthorized at once, and the step leaves
\* every attempt and every answer document unchanged.
C11_OnlyOwnerActs ==
    [][\A p \in Procs :
          (/\ pc[p] = "idle" /\ pc'[p] # "idle"
           /\ req'[p].op \in {"submit", "get", "delete"}
           /\ Exists(req'[p].attempt_id)
           /\ attempts[req'[p].attempt_id].user_id # req'[p].user_id)
          => /\ pc'[p] = "respond"
             /\ req'[p].outcome = "Unauthorized"
             /\ attempts' = attempts
             /\ answers' = answers]_vars

\* another user's Delete of an attempt that holds answers was refused and
\* the attempt and its answers are still there
C11_Witness ==
    \E p \in Procs :
        /\ Responding(p, "delete")
        /\ req[p].outcome = "Unauthorized"
        /\ Exists(req[p].attempt_id)
        /\ attempts[req[p].attempt_id].user_id # req[p].user_id
        /\ Count(req[p].attempt_id) > 0

\* the runs of generateUserInsights for user that have not issued a query yet
StartedRuns(rs, user) ==
    Find(rs, {r \in DOMAIN rs : r.user_id = user /\ r.pc = "findAttempts"})

\* C12: every step by which an attempt becomes COMPLETED (the completion
\* update of the last Submit call, or a bulk submission that commits) also
\* starts a run of generateUserInsights for the owner of the attempt.
C12_CompletionStartsInsights ==
    [][\A a \in AttemptIds :
          (attempts'[a] # NoDoc /\ attempts'[a].status = "COMPLETED"
             /\ attempts[a].status # "COMPLETED")
          => CountDocuments(StartedRuns(runs', attempts'[a].user_id))
                = CountDocuments(StartedRuns(runs, attempts'[a].user_id)) + 1]_vars

\* an attempt completed by its last Submit call, and a run started for its
\* owner
C12_Witness ==
    \E a \in AttemptIds :
        /\ Exists(a) /\ a \notin bulkCreated
        /\ attempts[a].status = "COMPLETED"
        /\ CountDocuments(StartedRuns(runs, attempts[a].user_id)) > 0

\* the answers of sample on a topic
OnTopic(t) == {i \in DOMAIN sample : sample[i].topic = t}

\* the topics named in any field of a computed snapshot
TopicsIn(snapshot) ==
    DOMAIN snapshot.topic_performance \cup DOMAIN snapshot.confidence_scores
        \cup snapshot.weak_topics \cup snapshot.strong_topics

\* C15: every topic that appears in any field of a computed snapshot
\* (proficiency, confidence, weak list, strong list) has at least 3 graded
\* answers among the answers aggregated; a topic with 0, 1 or 2 is in none.
C15_TopicsHaveThreeAnswers ==
    computed # Null =>
        \A t \in Topics : t \in TopicsIn(computed) => Cardinality(OnTopic(t)) >= 3

\* one topic with 2 answers was left out while the other, with at least 3,
\* was scored
C15_Witness ==
    /\ computed # Null
    /\ Cardinality(OnTopic("Algebra")) = 2
    /\ "Algebra" \notin TopicsIn(computed)
    /\ "Geometry" \in DOMAIN computed.topic_performance

\* C16: the confidence score of every scored topic is a whole number in
\* 0..100, whatever the proficiency, the recent score and the trend are.
C16_ConfidenceInRange ==
    computed # Null =>
        \A t \in DOMAIN computed.confidence_scores :
            computed.confidence_scores[t] \in 0..100

\* a topic whose blended value is negative (10 recent hard answers wrong,
\* older ones correct) has confidence 0
C16_Witness ==
    /\ computed # Null
    /\ \E t \in DOMAIN computed.confidence_scores :
          LET all == TopicDetails(sample, t)
          IN /\ Blend(WeightedPercent(all), WeightedPercent(RecentAttempts(all)),
                      TrendFactor(all)) < 0
             /\ computed.confidence_scores[t] = 0

\* twice the weight (2, 3, 4 for EASY, MEDIUM, HARD) of the answers in S
TwiceWeight(S) ==
    2 * Cardinality({i \in S : sample[i].difficulty = "EASY"})
    + 3 * Cardinality({i \in S : sample[i].difficulty = "MEDIUM"})
    + 4 * Cardinality({i \in S : sample[i].difficulty = "HARD"})

C18_WeakStrongClassification ==
    computed # Null =>
        /\ computed.weak_topics \cap computed.strong_topics = {}
        /\ computed.weak_topics \cup computed.strong_topics
                \subseteq DOMAIN computed.topic_performance
        /\ \A t \in DOMAIN computed.topic_performance :
              /\ t \in computed.weak_topics <=> computed.topic_performance[t] < 60
              /\ t \in computed.strong_topics <=> computed.topic_performance[t] >= 80

\* 3 of 5 EASY answers of a topic are right: proficiency 60, in neither list
C18_Witness ==
    /\ computed # Null
    /\ \E t \in DOMAIN computed.topic_performance :
          /\ Cardinality(OnTopic(t)) = 5
          /\ \A i \in OnTopic(t) : sample[i].difficulty = "EASY"
          /\ Cardinality({i \in OnTopic(t) : sample[i].is_correct}) = 3
          /\ computed.topic_performance[t] = 60
          /\ t \notin computed.weak_topics \cup computed.strong_topics

\* C13: a step that ends an insight run, by a rejection as well as by its
\* save or by returning null, changes no attempt, no answer document and no
\* request or response; and the handler that starts a run answers Success in
\* the same step, without waiting for the run.
C13_InsightFailureInvisible ==
    [][/\ CountDocuments(runs') < CountDocuments(runs)
            => UNCHANGED <<attempts, answers, pc, req>>
       /\ \A r \in DOMAIN runs' :
            (r.pc = "findAttempts" /\ CopiesIn(r, runs') > CopiesIn(r, runs))
            => /\ pc'[r.by] = "respond"
               /\ req'[r.by].outcome = "Success"
               /\ req'[r.by].user_id = r.user_id]_vars

\* the run started by the only Submit call so far has thrown; the Success
\* response is still shown and the completed attempt and its answer are
\* stored
C13_Witness ==
    \E p \in Procs :
        /\ Responding(p, "submit")
        /\ req[p].outcome = "Success"
        /\ nextId = 1
        /\ attempts[1] # NoDoc /\ attempts[1].status = "COMPLETED"
        /\ CountDocuments(AnswersOf(1)) = 1
        /\ \E e \in DOMAIN runErrors : e.user_id = req[p].user_id

\* C14: a step in which an insight run throws, at any of its queries or at
\* its save, leaves every MLInsight document unchanged in every field.
C14_FailedRunKeepsSnapshot ==
    [][CountDocuments(runErrors') > CountDocuments(runErrors)
          => insights' = insights]_vars

\* a run that had found the user's earlier document threw at its save, and
\* that document, with its topic and its earlier last_updated, is in place
C14_Witness ==
    \E e \in DOMAIN runErrors :
        /\ e.pc = "save"
        /\ e.target \in DOMAIN insights
        /\ insights[e.target].user_id = e.user_id
        /\ insights[e.target].last_updated < e.at
        /\ insights[e.target].weak_topics # {}

\* MLInsight.findOne({ user_id }).sort({ last_updated: -1 }) of the dashboard:
\* the position of the user's document updated last, 0 when there is none
LatestInsight(docs, user) ==
    IF \E i \in DOMAIN docs : docs[i].user_id = user
    THEN CHOOSE i \in DOMAIN docs :
            /\ docs[i].user_id = user
            /\ \A j \in DOMAIN docs :
                  docs[j].user_id = user => docs[j].last_updated <= docs[i].last_updated
    ELSE 0

\* the fields of an MLInsight document that hold topics
TopicFields(doc) ==
    [topic_performance |-> doc.topic_performance,
     confidence_scores |-> doc.confidence_scores,
     weak_topics |-> doc.weak_topics,
     strong_topics |-> doc.strong_topics]

\* C19: when a run ends without an error, the user's snapshot (the document
\* the run saved or, for a run that saved none, the document findOne returns
\* for the user) holds exactly the topics that run computed: a topic of the
\* previous snapshot that the run did not compute is in none of its fields.
C19_SnapshotFullyReplaced ==
    [][\A r \in DOMAIN runs :
          (/\ CopiesIn(r, runs') < CopiesIn(r, runs)
           /\ CountDocuments(runs') < CountDocuments(runs)
           /\ runErrors' = runErrors)
          => LET i == IF r.pc # "save" THEN FindOneInsight(insights', r.user_id)
                      ELSE IF r.target = 0 THEN Len(insights')
                      ELSE r.target
             IN i # 0 =>
                  TopicsIn(insights'[i])
                      = (IF r.pc = "save" THEN TopicsIn(r.result) ELSE {})]_vars

\* the attempts of users other than u are untouched and none of u's was
\* deleted: every id handed out still has its document
NothingDeleted ==
    Cardinality({a \in DOMAIN attempts : attempts[a] # NoDoc}) = nextId

\* C20: whenever every run started for a user has ended without an error and
\* no attempt has been deleted, the snapshot the dashboard reads for a user
\* with COMPLETED attempts equals the snapshot computed from the attempts and
\* answers stored at that moment.
C20_SnapshotMatchesHistory ==
    \A u \in Users :
        LET found == RecentCompleted(attempts, u)
            i == LatestInsight(insights, u)
        IN (/\ \A r \in DOMAIN runs : r.user_id # u
            /\ \A e \in DOMAIN runErrors : e.user_id # u
            /\ NothingDeleted
            /\ Len(found) > 0)
           => /\ i # 0
              /\ TopicFields(insights[i])
                    = AnalyzeTopics(JoinDetails(AnswersOfAttempts(answers, found), found))

(* ---------------------------- getDashboardData ------------------------- *)
\* the Badge collection and the names of its documents
Badges == {"b1"}
BadgeName(b) == IF b \in Badges THEN "First Quiz" ELSE "Unknown Badge"

\* mutant: the dashboard of any user is served
AnyUser(userId, requestingUserId) == TRUE

\* the security check: userId is the path parameter, requestingUserId the
\* authenticated user
SameUser(userId, requestingUserId) == userId = requestingUserId

\* what the 403 response carries
UnauthorizedBody ==
    [message |-> "Unauthorized. You can only access your own dashboard."]

\* quizAttempts.map: the entry of performance_history for the attempt e read
HistoryEntry(docs, e) ==
    [id |-> e.id, quiz_id |-> e.quiz_id, score |-> docs[e.id].score,
     correct_answers |-> docs[e.id].correct_answers,
     total_questions |-> docs[e.id].total_questions, date |-> e.timestamp]

HistoryEntries(docs, read) == [i \in DOMAIN read |-> HistoryEntry(docs, read[i])]

\* mutant: the attempts are not sorted before the limit is applied
UnsortedHistory(docs, user) ==
    HistoryEntries(docs, SliceFirst(CompletedFrom(docs, user, 1), 10))

\* QuizAttempt.find({ user_id, status: "COMPLETED" })
\*     .sort({ completed_at: -1 }).limit(10), mapped to performanceHistory
PerformanceHistory(docs, user) ==
    HistoryEntries(docs, SliceFirst(SortByTime(CompletedFrom(docs, user, 1), TRUE), 10))

RECURSIVE BadgesOf(_, _, _)
\* UserBadge.find({ user_id }) joined with Badge.find({ id: { $in } })
BadgesOf(docs, user, i) ==
    IF i > Len(docs) THEN <<>>
    ELSE IF docs[i].user_id = user
         THEN <<[id |-> docs[i].id, badge_id |-> docs[i].badge_id,
                 name |-> BadgeName(docs[i].badge_id),
                 achieved_at |-> docs[i].achieved_at]>> \o BadgesOf(docs, user, i + 1)
         ELSE BadgesOf(docs, user, i + 1)

\* topicProficiency: the document has no topic_proficiency (the schema has
\* no such path), so the scores are those of topic_performance; a score
\* outside 0..100 becomes 0
TopicProficiency(mlInsight) ==
    IF mlInsight = Null THEN <<>>
    ELSE [t \in DOMAIN mlInsight.topic_performance |->
             LET score == mlInsight.topic_performance[t]
             IN IF score < 0 \/ score > 100 THEN 0 ELSE score]

\* weakTopicsData: the proficiency of every weak topic that has one
WeakTopicsData(mlInsight) ==
    IF mlInsight = Null THEN <<>>
    ELSE [t \in mlInsight.weak_topics \cap DOMAIN TopicProficiency(mlInsight) |->
             TopicProficiency(mlInsight)[t]]

\* dashboardData
DashboardData(mlInsight, history, badges) ==
    [weak_topics_array |-> IF mlInsight = Null THEN {} ELSE mlInsight.weak_topics,
     strong_topics |-> IF mlInsight = Null THEN {} ELSE mlInsight.strong_topics,
     confidence_scores |-> IF mlInsight = Null THEN <<>>
                           ELSE mlInsight.confidence_scores,
     topic_proficiency |-> TopicProficiency(mlInsight),
     weak_topics |-> WeakTopicsData(mlInsight),
     performance_history |-> history,
     badges |-> badges,
     insight_last_updated |-> IF mlInsight = Null THEN Null
                              ELSE <<mlInsight.last_updated>>]

\* GET /dashboard/:userId up to the security check
GetDashboardData(p, requestingUserId, userId) ==
    /\ pc[p] = "idle"
    /\ req' = [req EXCEPT ![p] =
                 [op |-> "dashboard", user_id |-> requestingUserId,
                  requested |-> userId, attempt_id |-> 0, question_id |-> "",
                  outcome |-> IF SameUser(userId, requestingUserId) THEN ""
                              ELSE "Unauthorized",
                  mlInsight |-> Null, history |-> <<>>,
                  body |-> IF SameUser(userId, requestingUserId) THEN Null
                           ELSE UnauthorizedBody]]
    /\ pc' = [pc EXCEPT ![p] = IF SameUser(userId, requestingUserId)
                               THEN "dashInsight" ELSE "respond"]
    /\ UNCHANGED <<attempts, answers, nextId, now, completionWrites, bulkCreated>>
    /\ UNCHANGED <<runs, engineVars>>

\* MLInsight.findOne({ user_id }).sort({ last_updated: -1 }).lean()
DashFindInsight(p) ==
    /\ pc[p] = "dashInsight"
    /\ LET i == LatestInsight(insights, req[p].requested)
       IN req' = [req EXCEPT ![p].mlInsight = IF i = 0 THEN Null ELSE insights[i]]
    /\ pc' = [pc EXCEPT ![p] = "dashAttempts"]
    /\ UNCHANGED <<attempts, answers, nextId, now, completionWrites, bulkCreated>>
    /\ UNCHANGED <<runs, engineVars>>

\* QuizAttempt.find(...).sort(...).limit(10).lean() and quizAttempts.map
DashFindAttempts(p) ==
    /\ pc[p] = "dashAttempts"
    /\ req' = [req EXCEPT ![p].history = PerformanceHistory(attempts, req[p].requested)]
    /\ pc' = [pc EXCEPT ![p] = "dashBadges"]
    /\ UNCHANGED <<attempts, answers, nextId, now, completionWrites, bulkCreated>>
    /\ UNCHANGED <<runs, engineVars>>

\* UserBadge.find, Badge.find, and res.status(200).json(dashboardData)
DashFindBadges(p) ==
    /\ pc[p] = "dashBadges"
    /\ req' = [req EXCEPT ![p].outcome = "Success",
                          ![p].body = DashboardData(req[p].mlInsight, req[p].history,
                                         BadgesOf(userBadges, req[p].requested, 1))]
    /\ pc' = [pc EXCEPT ![p] = "respond"]
    /\ UNCHANGED <<attempts, answers, nextId, now, completionWrites, bulkCreated>>
    /\ UNCHANGED <<runs, engineVars>>

(* ------------------ the dashboard over stored histories ---------------- *)
MaxAttemptGroups == 2
\* how many attempts a user made in a row
AttemptRuns == {1, 10}

\* attempts made in a row by one user, left in one status and graded alike
AttemptGroups == [user_id : Users, status : {"COMPLETED", "IN_PROGRESS"},
                  size : AttemptRuns, is_correct : {TRUE}]

AttemptHistories == UNION {[1..n -> AttemptGroups] : n \in 0..MaxAttemptGroups}

RECURSIVE Expand(_, _)
\* one entry per attempt of the groups i.. of history h
Expand(h, i) ==
    IF i > Len(h) THEN <<>>
    ELSE [k \in 1..h[i].size |-> [user_id |-> h[i].user_id, status |-> h[i].status,
                                   is_correct |-> h[i].is_correct]]
         \o Expand(h, i + 1)

\* the QuizAttempt collection after history h: a COMPLETED attempt on the
\* one-question quiz B as the completion stores it, an IN_PROGRESS attempt on
\* quiz A as it is initialized; the attempts were completed in the order of
\* their ids, or (backdated) in the opposite order
StoredAttempts(h, backdated) ==
    LET e == Expand(h, 1)
    IN [a \in 1..Len(e) |->
          IF e[a].status = "COMPLETED"
          THEN [user_id |-> e[a].user_id, quiz_id |-> "quizB", status |-> "COMPLETED",
                score |-> ScoreOf(IF e[a].is_correct THEN 1 ELSE 0, 1),
                total_questions |-> <<1>>,
                correct_answers |-> <<IF e[a].is_correct THEN 1 ELSE 0>>,
                completed_at |-> <<IF backdated THEN Len(e) + 1 - a ELSE a>>]
          ELSE [user_id |-> e[a].user_id, quiz_id |-> "quizA", status |-> "IN_PROGRESS",
                score |-> Null, total_questions |-> Null,
                correct_answers |-> Null, completed_at |-> Null]]

\* the QuizAttemptAnswer collection after history h: the answer to q4 of
\* every COMPLETED attempt and the answer to q1 of every IN_PROGRESS one
StoredAnswers(h) ==
    LET e == Expand(h, 1)
    IN SetToBag({LET q == IF e[a].status = "COMPLETED" THEN "q4" ELSE "q1"
                     sel == IF e[a].is_correct THEN CorrectAnswer(q) ELSE <<"X">>
                 IN [attempt_id |-> a, question_id |-> q, selected_answer |-> sel,
                     is_correct |-> IsCorrect(sel, q)] : a \in 1..Len(e)})

\* the MLInsight document of a user whose three answers on Algebra were all
\* wrong or all right
StoredSnapshot(user, right, t) ==
    LET result == AnalyzeTopics([k \in 1..3 |-> AttemptDetail("Algebra", right, 1, "EASY")])
    IN [user_id |-> user, weak_topics |-> result.weak_topics,
        strong_topics |-> result.strong_topics,
        confidence_scores |-> result.confidence_scores,
        topic_performance |-> result.topic_performance, last_updated |-> t]

\* the MLInsight collection: no document, one, or two that were updated in
\* the order they were inserted or in the opposite order
StoredSnapshots ==
    {<<>>}
    \cup {<<StoredSnapshot(u, r, 1)>> : u \in Users, r \in BOOLEAN}
    \cup {<<StoredSnapshot(u1, r1, t), StoredSnapshot(u2, r2, 3 - t)>> :
            u1 \in Users, u2 \in Users, r1 \in BOOLEAN, r2 \in BOOLEAN, t \in 1..2}

\* the UserBadge collection
StoredBadges ==
    {<<>>,
     <<[id |-> 1, user_id |-> "u1", badge_id |-> "b1", achieved_at |-> 1]>>,
     <<[id |-> 1, user_id |-> "u1", badge_id |-> "b1", achieved_at |-> 1],
       [id |-> 2, user_id |-> "u2", badge_id |-> "b1", achieved_at |-> 2]>>}

DashboardInit ==
    /\ \E h \in AttemptHistories, backdated \in BOOLEAN :
          /\ attempts = StoredAttempts(h, backdated)
          /\ answers = StoredAnswers(h)
    /\ nextId = Len(attempts)
    /\ now = 0
    /\ pc = [p \in Procs |-> "idle"]
    /\ req = [p \in Procs |-> NoReq]
    /\ completionWrites = [a \in AttemptIds |-> 0]
    /\ bulkCreated = {}
    /\ runs = EmptyBag
    /\ insights \in StoredSnapshots
    /\ runErrors = EmptyBag
    /\ sample = <<>>
    /\ computed = Null
    /\ userBadges \in StoredBadges
    /\ client = NoClient

DashboardRequest ==
    /\ pc[1] = "idle"
    /\ \E requestingUserId \in Users, userId \in Users :
          GetDashboardData(1, requestingUserId, userId)

DashboardNext ==
    \/ DashboardRequest
    \/ DashFindInsight(1)
    \/ DashFindAttempts(1)
    \/ DashFindBadges(1)

DashboardSpec == DashboardInit /\ [][DashboardNext]_vars

\* the collections as they are when every document of another user is gone
OwnAttempts(user) ==
    [a \in DOMAIN attempts |->
        IF attempts[a] # NoDoc /\ attempts[a].user_id = user THEN attempts[a] ELSE NoDoc]
OwnInsights(user) == LET Own(d) == d.user_id = user IN SelectSeq(insights, Own)
OwnBadges(user) == LET Own(d) == d.user_id = user IN SelectSeq(userBadges, Own)

\* the dashboard computed from the documents of one user alone
DashboardOfUser(user) ==
    LET i == LatestInsight(OwnInsights(user), user)
    IN DashboardData(IF i = 0 THEN Null ELSE OwnInsights(user)[i],
                     PerformanceHistory(OwnAttempts(user), user),
                     BadgesOf(OwnBadges(user), user, 1))

\* C21: a dashboard request for another user's id is answered Unauthorized
\* and its response carries the message only (no attempt, no snapshot field,
\* no badge of the requested user); a successful response is the dashboard
\* computed from the requested user's own documents alone.
C21_DashboardOnlyForOwner ==
    \A p \in Procs :
        Responding(p, "dashboard") =>
            /\ req[p].requested # req[p].user_id =>
                  /\ req[p].outcome = "Unauthorized"
                  /\ req[p].body = UnauthorizedBody
                  /\ req[p].mlInsight = Null /\ req[p].history = <<>>
            /\ req[p].outcome = "Success" =>
                  /\ req[p].requested = req[p].user_id
                  /\ req[p].body = DashboardOfUser(req[p].requested)

\* a refused request for the dashboard of another user, who has a completed
\* attempt, a snapshot and a badge
C21_Witness ==
    /\ Responding(1, "dashboard")
    /\ req[1].requested # req[1].user_id
    /\ req[1].outcome = "Unauthorized"
    /\ Len(PerformanceHistory(attempts, req[1].requested)) > 0
    /\ LatestInsight(insights, req[1].requested) # 0
    /\ Len(BadgesOf(userBadges, req[1].requested, 1)) > 0

\* the ids of the COMPLETED attempts of a user
CompletedOf(user) ==
    {a \in DOMAIN attempts : /\ attempts[a] # NoDoc
                             /\ attempts[a].user_id = user
                             /\ attempts[a].status = "COMPLETED"}

\* C22: performance_history of a successful dashboard response lists only
\* COMPLETED attempts of the requested user, each once, 10 of them or all
\* when there are fewer, and none that is left out was completed later than
\* one that is listed; a user's own request succeeds, and without a snapshot
\* the snapshot fields of the response are empty.
C22_HistoryIsTenLatestCompleted ==
    \A p \in Procs :
        Responding(p, "dashboard") /\ req[p].requested = req[p].user_id =>
            LET user == req[p].requested
                history == req[p].body.performance_history
                shown == {history[i].id : i \in DOMAIN history}
                own == CompletedOf(user)
            IN /\ req[p].outcome = "Success"
               /\ shown \subseteq own
               /\ Cardinality(shown) = Len(history)
               /\ Len(history) = IF Cardinality(own) > 10 THEN 10 ELSE Cardinality(own)
               /\ \A a \in shown, b \in own \ shown :
                     attempts[b].completed_at[1] <= attempts[a].completed_at[1]
               /\ \A i \in DOMAIN history :
                     history[i].date = attempts[history[i].id].completed_at[1]
               /\ LatestInsight(insights, user) = 0 =>
                     /\ req[p].body.weak_topics_array = {}
                     /\ req[p].body.strong_topics = {}
                     /\ req[p].body.confidence_scores = <<>>
                     /\ req[p].body.topic_proficiency = <<>>
                     /\ req[p].body.weak_topics = <<>>

\* the dashboard of a user with 11 completed attempts and no snapshot, the
\* attempt completed last being the one stored last
C22_Witness ==
    /\ Responding(1, "dashboard")
    /\ req[1].outcome = "Success"
    /\ Cardinality(CompletedOf(req[1].requested)) > 10
    /\ Len(req[1].body.performance_history) = 10
    /\ LatestInsight(insights, req[1].requested) = 0
    /\ \E a \in CompletedOf(req[1].requested) :
          \A b \in CompletedOf(req[1].requested) \ {a} :
              b < a /\ attempts[b].completed_at[1] < attempts[a].completed_at[1]

(* ------------------- submitQuizAnswer: storage errors ------------------ *)
\* an awaited database call of submitQuizAnswer rejects: the catch block
\* answers 500 and the handler ends where it stood
SubmitFail(p) ==
    /\ pc[p] \in {"findExisting", "create", "count", "countCorrect", "update"}
    /\ RespondTo(p, "Internal")
    /\ UNCHANGED <<attempts, answers, nextId, now, completionWrites, bulkCreated>>
    /\ UNCHANGED <<runs, engineVars>>

FaultNext ==
    \/ Next
    \/ \E p \in Procs : SubmitFail(p)

FaultSpec == Init /\ [][FaultNext]_vars

\* the Submit calls on attempt a that have not yet answered
SubmitsRunning(a) ==
    {p \in Procs : /\ pc[p] \notin {"idle", "respond"}
                   /\ req[p].op = "submit"
                   /\ req[p].attempt_id = a}

\* attempt a has an answer for every question of its quiz
AllAnswered(a) ==
    \A q \in Questions :
        QuestionQuiz(q) = attempts[a].quiz_id =>
            \E d \in DOMAIN answers : d.attempt_id = a /\ d.question_id = q

\* C23: an attempt that has an answer for each question of its quiz, with no
\* Submit call on it still running, is COMPLETED.
C23_NoLostTransition ==
    \A a \in AttemptIds :
        Exists(a) /\ AllAnswered(a) /\ SubmitsRunning(a) = {} =>
            attempts[a].status = "COMPLETED"

\* C23, second part: a Submit call that answers with an error has written
\* no answer.
C23_ErrorWritesNothing ==
    [][\A p \in Procs :
          /\ pc[p] \notin {"idle", "respond"} /\ req[p].op = "submit"
          /\ pc'[p] = "respond" /\ req'[p].outcome # "Success"
          => pc[p] \notin {"count", "countCorrect", "update"}]_vars

(* ------- the aggregation applied to answers that share timestamps ------ *)
\* the answers of one completed attempt that were graded alike, and the
\* time the attempt was completed: groups of one attempt, and of attempts
\* completed in the same millisecond, have the same time
TimedGroups == [topic : Topics, size : GroupSizes, is_correct : BOOLEAN,
                time : 1..MaxGroups]

TimedHistories == UNION {[1..n -> TimedGroups] : n \in 0..MaxGroups}

RECURSIVE TimedDetails(_, _)
\* the details answers.forEach pushes for the groups i.. of history h
TimedDetails(h, i) ==
    IF i > Len(h) THEN <<>>
    ELSE [k \in 1..h[i].size |->
             AttemptDetail(h[i].topic, h[i].is_correct, h[i].time, "EASY")]
         \o TimedDetails(h, i + 1)

SplitInit ==
    /\ attempts = [a \in AttemptIds |-> NoDoc]
    /\ answers = EmptyBag
    /\ nextId = 0
    /\ now = 0
    /\ pc = [p \in Procs |-> "idle"]
    /\ req = [p \in Procs |-> NoReq]
    /\ completionWrites = [a \in AttemptIds |-> 0]
    /\ bulkCreated = {}
    /\ runs = EmptyBag
    /\ insights = <<>>
    /\ runErrors = EmptyBag
    /\ sample \in {TimedDetails(h, 1) : h \in TimedHistories}
    /\ computed = Null
    /\ userBadges = <<>>
    /\ client = NoClient

SplitNext == Aggregate

SplitSpec == SplitInit /\ [][SplitNext]_vars

\* the details of a topic that are not among its 10 most recent ones
RestAfterRecent(all) ==
    SubSeq(SortByTime(all, TRUE), Len(RecentAttempts(all)) + 1, Len(all))

\* C24: for every topic the aggregation has scored, the recent and the older
\* details together are the details of the topic, each once; the recent ones
\* are 10 (or all when there are at most 10) and none of the older ones is
\* later than a recent one; and the confidence score is the one that results
\* from trend = recent score - score of the rest when the rest has at least
\* 3 details, else 0.
C24_RecentOlderPartition ==
    computed # Null =>
        \A t \in DOMAIN computed.confidence_scores :
            LET all == TopicDetails(sample, t)
                recent == RecentAttempts(all)
                older == OlderAttempts(all)
                rest == RestAfterRecent(all)
                trend == IF Len(rest) >= 3
                         THEN WeightedPercent(recent) - WeightedPercent(rest)
                         ELSE 0
            IN /\ SeqToBag(recent) (+) SeqToBag(older) = SeqToBag(all)
               /\ Len(recent) = IF Len(all) > 10 THEN 10 ELSE Len(all)
               /\ \A i \in DOMAIN recent, j \in DOMAIN older :
                     older[j].timestamp <= recent[i].timestamp
               /\ Len(recent) >= 3 =>
                     computed.confidence_scores[t] =
                         Clamp(Blend(WeightedPercent(all), WeightedPercent(recent), trend))

(* ---------------- an insight run over stored histories ----------------- *)
GradedRuns == {1, 20}

\* attempts made in a row by one user, left in one status, their one answer
\* right or wrong
GradedGroups == [user_id : Users, status : {"COMPLETED", "IN_PROGRESS"},
                 size : GradedRuns, is_correct : BOOLEAN]

GradedHistories == UNION {[1..n -> GradedGroups] : n \in 0..MaxAttemptGroups}

\* the collections after a history, and one call of generateUserInsights
HistoryInit ==
    /\ \E h \in GradedHistories, backdated \in BOOLEAN :
          /\ attempts = StoredAttempts(h, backdated)
          /\ answers = StoredAnswers(h)
    /\ nextId = Len(attempts)
    /\ now = 0
    /\ pc = [p \in Procs |-> "idle"]
    /\ req = [p \in Procs |-> NoReq]
    /\ completionWrites = [a \in AttemptIds |-> 0]
    /\ bulkCreated = {}
    /\ runs \in {StartInsights(EmptyBag, user, 1) : user \in Users}
    /\ insights = <<>>
    /\ runErrors = EmptyBag
    /\ sample = <<>>
    /\ computed = Null
    /\ userBadges = <<>>
    /\ client = NoClient

HistoryNext ==
    \E r \in DOMAIN runs :
        \/ RunFindAttempts(r)
        \/ RunFindAnswers(r)
        \/ RunFindInsight(r)
        \/ RunSave(r)

HistorySpec == HistoryInit /\ [][HistoryNext]_vars

\* the COMPLETED attempts of a user that fewer than 20 of the user's
\* COMPLETED attempts were completed after
LatestTwenty(user) ==
    {a \in CompletedOf(user) :
        Cardinality({b \in CompletedOf(user) :
            attempts[b].completed_at[1] > attempts[a].completed_at[1]}) < 20}

\* the topics as computed from the answers of given attempts alone
InsightsFrom(user, ids) ==
    AnalyzeTopics(JoinDetails(
        BagToSeq(Find(answers, {d \in DOMAIN answers : d.attempt_id \in ids})),
        CompletedFrom(attempts, user, 1)))

\* C25: the attempts a run reads are the user's COMPLETED attempts that
\* fewer than 20 others were completed after, and what the run computes and
\* saves is what the answers of these attempts alone give: no answer of an
\* IN_PROGRESS attempt, of another user's attempt or of an older COMPLETED
\* attempt counts.
C25_OnlyLatestTwentyCount ==
    /\ \A r \in DOMAIN runs :
          /\ r.pc = "findAnswers" =>
                {r.found[i].id : i \in DOMAIN r.found} = LatestTwenty(r.user_id)
          /\ r.pc \in {"findInsight", "save"} =>
                r.result = InsightsFrom(r.user_id, LatestTwenty(r.user_id))
    /\ \A i \in DOMAIN insights :
          TopicFields(insights[i])
              = InsightsFrom(insights[i].user_id, LatestTwenty(insights[i].user_id))

\* a run has saved the snapshot of a user with more than 20 COMPLETED
\* attempts, whose oldest answer was graded unlike the later ones, so that
\* counting every answer gives another snapshot
C25_Witness ==
    /\ Len(insights) = 1
    /\ Cardinality(CompletedOf(insights[1].user_id)) > 20
    /\ TopicFields(insights[1])
          # InsightsFrom(insights[1].user_id, CompletedOf(insights[1].user_id))

\* the requests on attempt a whose handler has not yet answered
Running(a) ==
    {p \in Procs : pc[p] \notin {"idle", "respond"} /\ req[p].attempt_id = a}

\* C26: once every Delete and Submit call on an attempt has answered, no
\* answer is stored for an attempt that does not exist.
C26_NoOrphanAnswers ==
    \A a \in AttemptIds :
        ~Exists(a) /\ Running(a) = {} => Count(a) = 0

\* C27: the MLInsight collection holds at most one document per user.
C27_OneSnapshotPerUser ==
    \A u \in Users : Cardinality({i \in DOMAIN insights : insights[i].user_id = u}) <= 1

\* C28: a COMPLETED attempt on which no request is running stores as
\* correct_answers the number of its answers with is_correct = true and as
\* total_questions the number of questions of its quiz.
C28_CountsMatchAnswers ==
    \A a \in AttemptIds :
        Exists(a) /\ attempts[a].status = "COMPLETED" /\ Running(a) = {} =>
            /\ attempts[a].correct_answers = <<CorrectCount(a)>>
            /\ attempts[a].total_questions = <<QuestionsCount(attempts[a].quiz_id)>>

\* C28 for the attempts completed by Submit calls
C28_SubmitCountsMatch ==
    \A a \in AttemptIds \ bulkCreated :
        Exists(a) /\ attempts[a].status = "COMPLETED" /\ Running(a) = {} =>
            /\ attempts[a].correct_answers = <<CorrectCount(a)>>
            /\ attempts[a].total_questions = <<QuestionsCount(attempts[a].quiz_id)>>

\* C29: a COMPLETED attempt on which no request is running has exactly one
\* answer for each question of its quiz.
C29_CompletedHasAllAnswers ==
    \A a \in AttemptIds :
        Exists(a) /\ attempts[a].status = "COMPLETED" /\ Running(a) = {} =>
            \A q \in Questions :
                QuestionQuiz(q) = attempts[a].quiz_id =>
                    CountDocuments(Find(answers, {d \in DOMAIN answers :
                        d.attempt_id = a /\ d.question_id = q})) = 1

\* C29 for the attempts completed by Submit calls
C29_SubmitCompletedHasAllAnswers ==
    \A a \in AttemptIds \ bulkCreated :
        Exists(a) /\ attempts[a].status = "COMPLETED" /\ Running(a) = {} =>
            \A q \in Questions :
                QuestionQuiz(q) = attempts[a].quiz_id =>
                    CountDocuments(Find(answers, {d \in DOMAIN answers :
                        d.attempt_id = a /\ d.question_id = q})) = 1

(* ----------------------------- QuizInterface --------------------------- *)
\* Question.question_type and Question.options of the stored questions
QuestionType(q) == IF q = "q4" THEN "MULTI_SELECT" ELSE "MCQ"
Options(q) == IF q = "q4" THEN {"A", "B"} ELSE {CorrectAnswer(q)[1], "X"}

\* the values of a list
Elements(s) == {s[i] : i \in DOMAIN s}

\* selectedOptions without the option at position i
RemoveAt(s, i) == SubSeq(s, 1, i - 1) \o SubSeq(s, i + 1, Len(s))

\* newSelection of handleOptionSelect: the option alone for MCQ; for
\* MULTI_SELECT the option is pushed when absent and spliced out when present
NewSelection(q, selectedOptions, option) ==
    IF QuestionType(q) = "MCQ" THEN <<option>>
    ELSE IF option \in Elements(selectedOptions)
         THEN RemoveAt(selectedOptions,
                       CHOOSE i \in DOMAIN selectedOptions : selectedOptions[i] = option)
         ELSE Append(selectedOptions, option)

\* isCorrect of handleNextQuestion: includes for MCQ, equal sets for
\* MULTI_SELECT
LocallyCorrect(q, selectedOptions) ==
    IF QuestionType(q) = "MCQ"
    THEN Len(selectedOptions) > 0 /\ selectedOptions[1] \in Elements(CorrectAnswer(q))
    ELSE /\ Cardinality(Elements(selectedOptions)) = Cardinality(Elements(CorrectAnswer(q)))
         /\ Elements(selectedOptions) \subseteq Elements(CorrectAnswer(q))

\* the user of the client and the attempt createInitialAttempt returned
ClientUser == "u1"
ClientAttempt == 1

\* quizData[currentQuestionIndex]
CurrentQuestion == QuizQuestions(client.quiz)[client.currentQuestionIndex]

\* the quiz has been fetched and its attempt initialized: the first question
\* is shown
ClientInit ==
    /\ \E quiz \in Quizzes :
          /\ attempts = [a \in AttemptIds |->
                IF a = ClientAttempt
                THEN [user_id |-> ClientUser, quiz_id |-> quiz, status |-> "IN_PROGRESS",
                      score |-> Null, total_questions |-> Null,
                      correct_answers |-> Null, completed_at |-> Null]
                ELSE NoDoc]
          /\ client = [status |-> "in_progress", quiz |-> quiz,
                       currentQuestionIndex |-> 1, selectedOptions |-> <<>>,
                       score |-> 0, awaiting |-> "none"]
    /\ answers = EmptyBag
    /\ nextId = 1
    /\ now = 0
    /\ pc = [p \in Procs |-> "idle"]
    /\ req = [p \in Procs |-> NoReq]
    /\ completionWrites = [a \in AttemptIds |-> 0]
    /\ bulkCreated = {}
    /\ runs = EmptyBag
    /\ insights = <<>>
    /\ runErrors = EmptyBag
    /\ sample = <<>>
    /\ computed = Null
    /\ userBadges = <<>>

\* what a step of the client leaves alone
serverVars == <<attempts, answers, nextId, now, pc, req, completionWrites,
                bulkCreated, runs, insights, runErrors, sample, computed, userBadges>>

\* handleOptionSelect up to its await: an option is clicked while no
\* submission is under way; for MCQ the selection is to be submitted at once
HandleOptionSelect(option) ==
    /\ client.status = "in_progress" /\ client.awaiting = "none"
    /\ option \in Options(CurrentQuestion)
    /\ client' = [client EXCEPT
          !.selectedOptions = NewSelection(CurrentQuestion, @, option),
          !.awaiting = IF QuestionType(CurrentQuestion) = "MCQ" THEN "select" ELSE "none"]
    /\ UNCHANGED serverVars

\* the score and the question shown after an answer was recorded
Advance(c, isCorrect) ==
    [c EXCEPT !.score = IF isCorrect THEN @ + 1 ELSE @,
              !.currentQuestionIndex =
                  IF @ < Len(QuizQuestions(c.quiz)) THEN @ + 1 ELSE @,
              !.selectedOptions =
                  IF c.currentQuestionIndex < Len(QuizQuestions(c.quiz)) THEN <<>> ELSE @,
              !.status =
                  IF c.currentQuestionIndex < Len(QuizQuestions(c.quiz))
                  THEN "in_progress" ELSE "completed",
              !.awaiting = "none"]

\* handleNextQuestion, enabled with a selection and no submission under way:
\* for MCQ the whole handler, for MULTI_SELECT up to its await
HandleNextQuestion ==
    /\ client.status = "in_progress" /\ client.awaiting = "none"
    /\ Len(client.selectedOptions) > 0
    /\ client' = IF QuestionType(CurrentQuestion) = "MCQ"
                 THEN Advance(client, LocallyCorrect(CurrentQuestion, client.selectedOptions))
                 ELSE [client EXCEPT !.awaiting = "next"]
    /\ UNCHANGED serverVars

\* submitAnswerToBackend: POST /quiz-attempts/:attemptId/answers arrives
SubmitAnswerToBackend ==
    /\ client.status = "in_progress" /\ client.awaiting \in {"select", "next"}
    /\ pc[1] = "idle"
    /\ SubmitFindAttempt(1, ClientUser, ClientAttempt, CurrentQuestion,
                         client.selectedOptions)

\* the response arrives (an error is logged and the quiz continues):
\* handleOptionSelect ends, handleNextQuestion goes on to the score
SubmitAnswerDone ==
    /\ client.status = "in_progress" /\ client.awaiting \in {"select", "next"}
    /\ pc[1] = "respond"
    /\ pc' = [pc EXCEPT ![1] = "idle"]
    /\ req' = [req EXCEPT ![1] = NoReq]
    /\ client' = IF client.awaiting = "next"
                 THEN Advance(client, LocallyCorrect(CurrentQuestion, client.selectedOptions))
                 ELSE [client EXCEPT !.awaiting = "none"]
    /\ UNCHANGED <<attempts, answers, nextId, now, completionWrites, bulkCreated,
                   runs, insights, runErrors, sample, computed, userBadges>>

ClientNext ==
    \/ \E option \in {"A", "B", "C", "X"} : HandleOptionSelect(option)
    \/ HandleNextQuestion
    \/ SubmitAnswerToBackend
    \/ SubmitAnswerDone
    \/ SubmitFindExisting(1)
    \/ SubmitCreate(1)
    \/ SubmitCount(1)
    \/ SubmitCountCorrect(1)
    \/ SubmitUpdate(1)

ClientSpec == ClientInit /\ [][ClientNext]_vars

\* C30: when the quiz is completed in the client, the number of questions
\* the client has counted as correct is the number of the attempt's answers
\* with is_correct = true.
C30_ClientScoreIsServerScore ==
    client.status = "completed" => client.score = CorrectCount(ClientAttempt)

====
